---- MODULE Spec2Model ----
(***************************************************************************)
(* Model of compile_actions.py: the compilation of the Shortcuts           *)
(* raw.sqlite export (Tools, ToolLocalizations, ParameterLocalizations,    *)
(* Parameters, Types) into one JSON document.                              *)
(*                                                                         *)
(* Python values are tagged records, so that None, "" and b"" stay         *)
(* three different values.  A table is the set of its rows; a query        *)
(* result is a sequence (ORDER BY is an explicit sort).                    *)
(***************************************************************************)
EXTENDS Integers, Sequences, FiniteSets, TLC

VARIABLES
    db_exists,                \* Path(args.db).exists()
    Tools,                    \* table Tools
    ToolLocalizations,        \* table ToolLocalizations
    ParameterLocalizations,   \* table ParameterLocalizations
    Parameters,               \* table Parameters
    Types,                    \* table Types
    args,                     \* parsed command line: locale, fallback_locale
    pc,                       \* position of main()
    conn,                     \* "none" | "open" | "closed"
    opens,                    \* number of sqlite3.connect calls that returned
    pending,                  \* exception travelling through the finally block
    locals,                   \* main's assigned locals: tools, tool_localizations,
                              \* parameter_localizations, parameters, compiled_actions
    fs,                       \* output side: parent directory and output file
    fs_initial,               \* fs as it was when main started
    blob_value,               \* argument of a direct encode_blob call
    blob_result               \* its result

vars == <<db_exists, Tools, ToolLocalizations, ParameterLocalizations,
          Parameters, Types, args, pc, conn, opens, pending, locals,
          fs, fs_initial, blob_value, blob_result>>

dbvars == <<db_exists, Tools, ToolLocalizations, ParameterLocalizations,
            Parameters, Types, args>>

blobvars == <<blob_value, blob_result>>

-----------------------------------------------------------------------------
(* Python values *)

None == [t |-> "none"]
PyStr(s) == [t |-> "str", v |-> s]
PyInt(i) == [t |-> "int", v |-> i]
Bytes(b) == [t |-> "bytes", v |-> b]
MemoryView(b) == [t |-> "memoryview", v |-> b]
\* ASCII text built character by character (the result of b64encode)
Ascii(cs) == [t |-> "ascii", v |-> cs]

\* bool(x) as Python computes it for the value kinds that occur here
Truthy(x) ==
    CASE x.t = "none" -> FALSE
      [] x.t = "str" -> x.v # ""
      [] x.t = "int" -> x.v # 0
      [] x.t = "row" -> TRUE
      [] OTHER -> Len(x.v) > 0

\* a if a is not None else b
PyOr_NoneOnly(a, b) == IF a = None THEN b ELSE a

\* a or b
PyOr(a, b) == IF Truthy(a) THEN a ELSE b

\* a value not yet assigned
Unset == [t |-> "unset"]

\* the local namespace of a function: no name bound yet / name = value
NoLocals == [n \in {} |-> Unset]
Assign(ns, name, value) == (name :> value) @@ ns
Bound(ns, name) == name \in DOMAIN ns

-----------------------------------------------------------------------------
(* base64 *)

B64Alphabet ==
    << "A","B","C","D","E","F","G","H","I","J","K","L","M","N","O","P",
       "Q","R","S","T","U","V","W","X","Y","Z","a","b","c","d","e","f",
       "g","h","i","j","k","l","m","n","o","p","q","r","s","t","u","v",
       "w","x","y","z","0","1","2","3","4","5","6","7","8","9","+","/" >>

B64Char(n) == B64Alphabet[n + 1]

B64Index(c) == CHOOSE n \in 0..63 : B64Alphabet[n + 1] = c

RECURSIVE b64encode(_)
b64encode(b) ==
    IF Len(b) = 0 THEN << >>
    ELSE IF Len(b) = 1 THEN
        << B64Char(b[1] \div 4), B64Char((b[1] % 4) * 16), "=", "=" >>
    ELSE IF Len(b) = 2 THEN
        << B64Char(b[1] \div 4),
           B64Char((b[1] % 4) * 16 + b[2] \div 16),
           B64Char((b[2] % 16) * 4), "=" >>
    ELSE
        << B64Char(b[1] \div 4),
           B64Char((b[1] % 4) * 16 + b[2] \div 16),
           B64Char((b[2] % 16) * 4 + b[3] \div 64),
           B64Char(b[3] % 64) >> \o b64encode(SubSeq(b, 4, Len(b)))

RECURSIVE b64decode(_)
b64decode(cs) ==
    IF Len(cs) = 0 THEN << >>
    ELSE LET i1 == B64Index(cs[1])
             i2 == B64Index(cs[2])
         IN IF cs[3] = "=" THEN << i1 * 4 + i2 \div 16 >>
            ELSE LET i3 == B64Index(cs[3])
                 IN IF cs[4] = "=" THEN
                        << i1 * 4 + i2 \div 16, (i2 % 16) * 16 + i3 \div 4 >>
                    ELSE << i1 * 4 + i2 \div 16,
                            (i2 % 16) * 16 + i3 \div 4,
                            (i3 % 4) * 64 + B64Index(cs[4]) >>
                         \o b64decode(SubSeq(cs, 5, Len(cs)))

\* "if not value: return None" ahead of the conversion
encode_blob_EmptyIsNone(value) ==
    IF value = None \/ value.v = << >> THEN None
    ELSE Ascii(b64encode(value.v))

encode_blob(value) ==
    IF value = None THEN None
    ELSE LET b == IF value.t = "memoryview" THEN Bytes(value.v) ELSE value
         IN IF ~Truthy(b) THEN Ascii(<< >>)
            ELSE Ascii(b64encode(b.v))

-----------------------------------------------------------------------------
(* Queries.  The pass-through columns of Tools and Parameters other than   *)
(* flags, and the blob columns other than requirements / relationships,    *)
(* are copied by the same expressions and are left out.                    *)

\* SELECT rowId FROM Tools
ActionRowIds_Unfiltered(T) == {r.rowId : r \in T}

\* SELECT rowId FROM Tools WHERE toolType = 'action'
ActionRowIds(T) == {r.rowId : r \in {x \in T : x.toolType = "action"}}

\* ORDER BY rowId
RECURSIVE OrderByRowId(_)
OrderByRowId(S) ==
    IF S = {} THEN << >>
    ELSE LET first == CHOOSE x \in S : \A y \in S : x.rowId <= y.rowId
         IN << first >> \o OrderByRowId(S \ {first})

fetch_tool_rows(T) == OrderByRowId({r \in T : r.toolType = "action"})

\* the dict built from the rows of one query: localized[key(row)] = row
RowsByToolId(rows) ==
    [k \in {r.toolId : r \in rows} |-> CHOOSE r \in rows : r.toolId = k]

RowsByToolIdKey(rows) ==
    [k \in {<<r.toolId, r.key>> : r \in rows} |->
        CHOOSE r \in rows : <<r.toolId, r.key>> = k]

\* the fallback rows overwrite the primary ones (d1.update(d2))
SetDefaultAll_Overwrite(d1, d2) ==
    [k \in (DOMAIN d1) \cup (DOMAIN d2) |->
        IF k \in DOMAIN d2 THEN d2[k] ELSE d1[k]]

\* for each key of d2: d1.setdefault(key, d2[key])
SetDefaultAll(d1, d2) ==
    [k \in (DOMAIN d1) \cup (DOMAIN d2) |->
        IF k \in DOMAIN d1 THEN d1[k] ELSE d2[k]]

\* if fallback_locale and fallback_locale != locale
UseFallback(locale, fallback_locale) ==
    Truthy(fallback_locale) /\ fallback_locale # locale

\* WHERE locale = ? AND toolId IN (SELECT rowId FROM Tools WHERE toolType = 'action')
LocalizationQuery(table, T, loc) ==
    {r \in table : r.locale = loc.v /\ r.toolId \in ActionRowIds(T)}

fetch_tool_localizations(TL, T, locale, fallback_locale) ==
    LET localized == RowsByToolId(LocalizationQuery(TL, T, locale))
    IN IF UseFallback(locale, fallback_locale)
       THEN SetDefaultAll(localized,
                RowsByToolId(LocalizationQuery(TL, T, fallback_locale)))
       ELSE localized

fetch_parameter_localizations(PL, T, locale, fallback_locale) ==
    LET localized == RowsByToolIdKey(LocalizationQuery(PL, T, locale))
    IN IF UseFallback(locale, fallback_locale)
       THEN SetDefaultAll(localized,
                RowsByToolIdKey(LocalizationQuery(PL, T, fallback_locale)))
       ELSE localized

\* parameter keys are compared as strings (BINARY collation)
KeyOrder == << "a", "b", "c" >>
KeyRank(k) == CHOOSE i \in 1..Len(KeyOrder) : KeyOrder[i] = k

\* (toolId, key) of a precedes that of b: ORDER BY toolId, key
ParamLess_KeyOnly(a, b) ==
    \/ a.toolId < b.toolId
    \/ a.toolId = b.toolId /\ KeyRank(a.key) < KeyRank(b.key)

\* (toolId, sortOrder, key) of a precedes that of b
ParamLess(a, b) ==
    \/ a.toolId < b.toolId
    \/ a.toolId = b.toolId /\ a.sortOrder < b.sortOrder
    \/ a.toolId = b.toolId /\ a.sortOrder = b.sortOrder
                           /\ KeyRank(a.key) < KeyRank(b.key)

\* ORDER BY Parameters.toolId, Parameters.sortOrder, Parameters.key
RECURSIVE OrderParameters(_)
OrderParameters(S) ==
    IF S = {} THEN << >>
    ELSE LET first == CHOOSE x \in S : \A y \in S : ~ParamLess(y, x)
         IN << first >> \o OrderParameters(S \ {first})

\* the join condition dropped: LEFT JOIN Types ON 1
JoinType_AnyRow(p, TY) ==
    IF TY = {}
    THEN [toolId |-> p.toolId, key |-> p.key, sortOrder |-> p.sortOrder,
          relationships |-> p.relationships, typeId |-> p.typeId,
          typeIdentifier |-> None, typeKind |-> None,
          typeRuntimeFlags |-> None, typeRuntimeRequirements |-> None]
    ELSE LET ty == CHOOSE x \in TY : TRUE
         IN [toolId |-> p.toolId, key |-> p.key, sortOrder |-> p.sortOrder,
             relationships |-> p.relationships, typeId |-> p.typeId,
             typeIdentifier |-> ty.id, typeKind |-> ty.kind,
             typeRuntimeFlags |-> ty.runtimeFlags,
             typeRuntimeRequirements |-> ty.runtimeRequirements]

\* LEFT JOIN Types ON Types.rowId = Parameters.typeId
JoinType(p, TY) ==
    LET m == {ty \in TY : p.typeId = PyInt(ty.rowId)}
    IN IF m = {}
       THEN [toolId |-> p.toolId, key |-> p.key, sortOrder |-> p.sortOrder,
             relationships |-> p.relationships, typeId |-> p.typeId,
             typeIdentifier |-> None, typeKind |-> None,
             typeRuntimeFlags |-> None, typeRuntimeRequirements |-> None]
       ELSE LET ty == CHOOSE x \in m : TRUE
            IN [toolId |-> p.toolId, key |-> p.key, sortOrder |-> p.sortOrder,
                relationships |-> p.relationships, typeId |-> p.typeId,
                typeIdentifier |-> ty.id, typeKind |-> ty.kind,
                typeRuntimeFlags |-> ty.runtimeFlags,
                typeRuntimeRequirements |-> ty.runtimeRequirements]

\* JOIN Tools ON Tools.rowId = Parameters.toolId WHERE Tools.toolType = 'action'
fetch_parameters(P, T, TY) ==
    OrderParameters({JoinType(p, TY) : p \in {x \in P : x.toolId \in ActionRowIds(T)}})

-----------------------------------------------------------------------------
(* build_payload *)

\* mapping.get(key)
Get(d, k) == IF k \in DOMAIN d THEN d[k] ELSE None

\* localized[column] if localized else None
ColumnOrNone(localized, column) ==
    IF Truthy(localized) THEN localized[column] ELSE None

ArgumentRecord(param, pl) ==
    LET localized == Get(pl, <<param.toolId, param.key>>)
    IN [key |-> param.key,
        name |-> PyOr(ColumnOrNone(localized, "name"), PyStr(param.key)),
        description |-> ColumnOrNone(localized, "description"),
        sortOrder |-> param.sortOrder,
        relationships |-> encode_blob(param.relationships),
        type |-> [rowId |-> param.typeId,
                  kind |-> param.typeKind,
                  runtimeFlags |-> param.typeRuntimeFlags,
                  runtimeRequirements |-> encode_blob(param.typeRuntimeRequirements),
                  encodedId |-> encode_blob(param.typeIdentifier)]]

\* every argument record under every tool
RECURSIVE ParamsByTool_Ungrouped(_, _, _)
ParamsByTool_Ungrouped(ps, pl, rowId) ==
    IF ps = << >> THEN << >>
    ELSE << ArgumentRecord(Head(ps), pl) >> \o ParamsByTool_Ungrouped(Tail(ps), pl, rowId)

\* params_by_tool.get(rowId, []) after the grouping loop
RECURSIVE ParamsByTool(_, _, _)
ParamsByTool(ps, pl, rowId) ==
    IF ps = << >> THEN << >>
    ELSE IF Head(ps).toolId = rowId
         THEN << ArgumentRecord(Head(ps), pl) >> \o ParamsByTool(Tail(ps), pl, rowId)
         ELSE ParamsByTool(Tail(ps), pl, rowId)

ToolRecord(tool, tl, pl, ps) ==
    LET localized == Get(tl, tool.rowId)
    IN [rowId |-> tool.rowId,
        name |-> PyOr(ColumnOrNone(localized, "name"), PyStr(tool.id)),
        description |-> ColumnOrNone(localized, "descriptionSummary"),
        toolType |-> tool.toolType,
        flags |-> tool.flags,
        requirements |-> encode_blob(tool.requirements),
        arguments |-> ParamsByTool(ps, pl, tool.rowId)]

\* compiled[tool["id"]] = {...} for each tool in order: the last one wins
build_payload(ts, tl, pl, ps) ==
    [i \in {ts[n].id : n \in 1..Len(ts)} |->
        LET last == CHOOSE n \in 1..Len(ts) :
                        /\ ts[n].id = i
                        /\ \A m \in 1..Len(ts) : ts[m].id = i => m <= n
        IN ToolRecord(ts[last], tl, pl, ps)]

\* the document handed to json.dumps (generatedAt and sourceDatabase left out)
Payload(compiled, a) ==
    [metadata |-> [locale |-> a.locale,
                   fallbackLocale |-> a.fallback_locale,
                   actionCount |-> Cardinality(DOMAIN compiled)],
     actions |-> compiled]

-----------------------------------------------------------------------------
(* main *)

QueryPcs == {"fetch_tool_rows", "fetch_tool_localizations",
             "fetch_parameter_localizations", "fetch_parameters"}

\* if not db_path.exists(): raise SystemExit(...)
CheckDb ==
    /\ pc = "check_db"
    /\ IF db_exists
       THEN pc' = "connect" /\ pending' = pending
       ELSE pc' = "failed" /\ pending' = "db_not_found"
    /\ UNCHANGED <<dbvars, conn, opens, locals, fs, fs_initial, blobvars>>

\* conn = sqlite3.connect(db_path)
Connect ==
    /\ pc = "connect"
    /\ conn' = "open"
    /\ opens' = opens + 1
    /\ pc' = "fetch_tool_rows"
    /\ UNCHANGED <<dbvars, pending, locals, fs, fs_initial, blobvars>>

\* sqlite3.connect raises: the try block is never entered
ConnectRaises ==
    /\ pc = "connect"
    /\ pc' = "failed"
    /\ pending' = "connect_error"
    /\ UNCHANGED <<dbvars, conn, opens, locals, fs, fs_initial, blobvars>>

\* the check for an empty result left out
NoToolsFound_Never(ts) == FALSE

\* if not tools
NoToolsFound(ts) == ts = << >>

\* tools = fetch_tool_rows(conn); if not tools: raise SystemExit(...)
FetchToolRows ==
    /\ pc = "fetch_tool_rows"
    /\ locals' = Assign(locals, "tools", fetch_tool_rows(Tools))
    /\ IF NoToolsFound(locals'.tools)
       THEN pc' = "finally" /\ pending' = "no_tools"
       ELSE pc' = "fetch_tool_localizations" /\ pending' = pending
    /\ UNCHANGED <<dbvars, conn, opens, fs, fs_initial, blobvars>>

FetchToolLocalizations ==
    /\ pc = "fetch_tool_localizations"
    /\ locals' = Assign(locals, "tool_localizations",
           fetch_tool_localizations(ToolLocalizations, Tools,
                                    args.locale, args.fallback_locale))
    /\ pc' = "fetch_parameter_localizations"
    /\ UNCHANGED <<dbvars, conn, opens, pending, fs, fs_initial, blobvars>>

FetchParameterLocalizations ==
    /\ pc = "fetch_parameter_localizations"
    /\ locals' = Assign(locals, "parameter_localizations",
           fetch_parameter_localizations(ParameterLocalizations, Tools,
                                         args.locale, args.fallback_locale))
    /\ pc' = "fetch_parameters"
    /\ UNCHANGED <<dbvars, conn, opens, pending, fs, fs_initial, blobvars>>

FetchParameters ==
    /\ pc = "fetch_parameters"
    /\ locals' = Assign(locals, "parameters",
           fetch_parameters(Parameters, Tools, Types))
    /\ pc' = "finally"
    /\ UNCHANGED <<dbvars, conn, opens, pending, fs, fs_initial, blobvars>>

\* conn.execute raises (a malformed or corrupt store) in any of the four fetches
QueryRaises ==
    /\ pc \in QueryPcs
    /\ pc' = "finally"
    /\ pending' = "query_error"
    /\ UNCHANGED <<dbvars, conn, opens, locals, fs, fs_initial, blobvars>>

\* where control goes after the finally block
AfterFinally(p) == IF p = "none" THEN "build_payload" ELSE "failed"

\* conn.close() at the end of the try block instead of in a finally
ConnAfterFinally_OnSuccess(p) == IF p = "none" THEN "closed" ELSE "open"

\* the connection after the finally block, entered with exception p pending
ConnAfterFinally(p) == "closed"

\* finally: conn.close()
Finally ==
    /\ pc = "finally"
    /\ conn' = ConnAfterFinally(pending)
    /\ pc' = AfterFinally(pending)
    /\ UNCHANGED <<dbvars, opens, pending, locals, fs, fs_initial, blobvars>>

BuildPayload ==
    /\ pc = "build_payload"
    /\ locals' = Assign(locals, "compiled_actions",
           build_payload(locals.tools, locals.tool_localizations,
                         locals.parameter_localizations, locals.parameters))
    /\ pc' = "mkdir"
    /\ UNCHANGED <<dbvars, conn, opens, pending, fs, fs_initial, blobvars>>

\* output_path.parent.mkdir(parents=True, exist_ok=True)
Mkdir ==
    /\ pc = "mkdir"
    /\ fs' = [fs EXCEPT !.dir = TRUE]
    /\ pc' = "write_text"
    /\ UNCHANGED <<dbvars, conn, opens, pending, locals, fs_initial, blobvars>>

\* output_path.write_text(json.dumps(payload, indent=2), encoding="utf-8")
WriteText ==
    /\ pc = "write_text"
    /\ fs' = [fs EXCEPT !.file = Payload(locals.compiled_actions, args)]
    /\ pc' = "done"
    /\ UNCHANGED <<dbvars, conn, opens, pending, locals, fs_initial, blobvars>>

\* mkdir or the opening of the output file raises OSError
OutputRaises ==
    /\ pc \in {"mkdir", "write_text"}
    /\ pc' = "failed"
    /\ pending' = "io_error"
    /\ UNCHANGED <<dbvars, conn, opens, locals, fs, fs_initial, blobvars>>

\* a direct call of encode_blob
EncodeBlobCall ==
    /\ pc = "encode_blob"
    /\ blob_result' = encode_blob(blob_value)
    /\ pc' = "returned"
    /\ UNCHANGED <<dbvars, conn, opens, pending, locals, fs, fs_initial,
                   blob_value>>

Next ==
    \/ CheckDb
    \/ Connect
    \/ ConnectRaises
    \/ FetchToolRows
    \/ FetchToolLocalizations
    \/ FetchParameterLocalizations
    \/ FetchParameters
    \/ QueryRaises
    \/ Finally
    \/ BuildPayload
    \/ Mkdir
    \/ WriteText
    \/ OutputRaises

BlobNext == EncodeBlobCall

-----------------------------------------------------------------------------
(* Stores and command lines the runs start from *)

MaxLocRows == 3     \* rows of a localization table
MaxParams == 3      \* rows of Parameters
MaxBlobLen == 3     \* bytes of a blob passed to encode_blob directly

ToolRowIds == {1, 2}
PublicIds == << "com.example.one", "com.example.two" >>
Locales == {"en", "fr"}
SortOrders == {1, 2, 3}
ByteValues == {0, 77, 97, 255}

ToolRow(r, type) ==
    [rowId |-> r, id |-> PublicIds[r], toolType |-> type, flags |-> r,
     requirements |-> IF r = 1 THEN Bytes(<< 77, 97 >>) ELSE None]

\* every Tools table over ToolRowIds: each row absent, an action or a widget
ToolsTables ==
    {{ToolRow(r, f[r]) : r \in {x \in ToolRowIds : f[x] # "absent"}} :
        f \in [ToolRowIds -> {"absent", "action", "widget"}]}

LocalizedNames == [fr |-> << "Nom 1", "Nom 2" >>, en |-> << "Name 1", "Name 2" >>]
LocalizedTexts == [fr |-> << "Resume 1", "Resume 2" >>,
                   en |-> << "Summary 1", "Summary 2" >>]

\* the strings a localization row of entity r in locale l may hold:
\* <<name, description>>
LocStrings(r, l) ==
    {<< None, None >>,
     << PyStr(""), PyStr(LocalizedTexts[l][r]) >>,
     << PyStr(LocalizedNames[l][r]), PyStr(LocalizedTexts[l][r]) >>}

LocCells == ToolRowIds \X Locales

\* one choice of strings for each cell of cs
LocFillings(cs) ==
    {f \in [cs -> UNION {LocStrings(c[1], c[2]) : c \in LocCells}] :
        \A c \in cs : f[c] \in LocStrings(c[1], c[2])}

\* the tables with at most n rows, one row at most per cell
CellChoices(cells, n) == {c \in SUBSET cells : Cardinality(c) <= n}

ToolLocTables ==
    UNION {{{[t |-> "row", toolId |-> c[1], locale |-> c[2],
              name |-> f[c][1], descriptionSummary |-> f[c][2]] : c \in cs} :
                f \in LocFillings(cs)} :
           cs \in CellChoices(LocCells, MaxLocRows)}

ParamLocTables ==
    UNION {{{[t |-> "row", toolId |-> c[1], key |-> "a", locale |-> c[2],
              name |-> f[c][1], description |-> f[c][2]] : c \in cs} :
                f \in LocFillings(cs)} :
           cs \in CellChoices(LocCells, MaxLocRows)}

Relationships(k) ==
    IF k = "a" THEN None ELSE IF k = "b" THEN Bytes(<< >>) ELSE Bytes(<< 0, 255 >>)

ParamRow(r, k, so, ty) ==
    [toolId |-> r, key |-> k, sortOrder |-> so,
     relationships |-> Relationships(k), typeId |-> ty]

\* Parameters tables that differ in the sort orders
OrderedParamTables ==
    UNION {{{ParamRow(c[1], c[2], f[c], None) : c \in cs} :
                f \in [cs -> SortOrders]} :
           cs \in CellChoices(ToolRowIds \X {"a", "b", "c"}, MaxParams)}

\* Parameters tables that differ in the type references
TypedParamTables ==
    UNION {{{ParamRow(c[1], c[2], 1, f[c]) : c \in cs} :
                f \in [cs -> {None, PyInt(1), PyInt(2)}]} :
           cs \in CellChoices(ToolRowIds \X {"a", "b"}, MaxParams)}

OneParamEach == {ParamRow(r, "a", 1, None) : r \in ToolRowIds}

TypeRow ==
    [rowId |-> 1, id |-> Bytes(<< 77 >>), kind |-> PyInt(3),
     runtimeFlags |-> PyInt(0), runtimeRequirements |-> Bytes(<< >>)]

ArgsChoices ==
    [locale : {PyStr(l) : l \in Locales},
     fallback_locale : {None, PyStr("")} \cup {PyStr(l) : l \in Locales}]

FsChoices ==
    {[dir |-> FALSE, file |-> PyStr("absent")],
     [dir |-> TRUE, file |-> PyStr("absent")],
     [dir |-> TRUE, file |-> PyStr("old")]}

\* main has just been entered
InitRun ==
    /\ pc = "check_db"
    /\ conn = "none"
    /\ opens = 0
    /\ pending = "none"
    /\ locals = NoLocals
    /\ fs_initial = fs
    /\ blob_value = Unset
    /\ blob_result = Unset

\* the source path does not exist
InitMissing ==
    /\ db_exists = FALSE
    /\ Tools = {} /\ ToolLocalizations = {} /\ ParameterLocalizations = {}
    /\ Parameters = {} /\ Types = {}
    /\ args = [locale |-> PyStr("en"), fallback_locale |-> PyStr("en")]
    /\ fs \in FsChoices

\* the output side varies
InitOutput ==
    /\ db_exists = TRUE
    /\ Tools \in ToolsTables
    /\ ToolLocalizations = {} /\ ParameterLocalizations = {}
    /\ Parameters = OneParamEach /\ Types = {}
    /\ args = [locale |-> PyStr("en"), fallback_locale |-> PyStr("en")]
    /\ fs \in FsChoices

\* the tool localizations and the locales vary
InitToolLocs ==
    /\ db_exists = TRUE
    /\ Tools \in ToolsTables
    /\ ToolLocalizations \in ToolLocTables
    /\ ParameterLocalizations = {}
    /\ Parameters = OneParamEach /\ Types = {}
    /\ args \in ArgsChoices
    /\ fs = [dir |-> FALSE, file |-> PyStr("absent")]

\* the parameter localizations and the locales vary
InitParamLocs ==
    /\ db_exists = TRUE
    /\ Tools \in ToolsTables
    /\ ToolLocalizations = {}
    /\ ParameterLocalizations \in ParamLocTables
    /\ Parameters = OneParamEach /\ Types = {}
    /\ args \in ArgsChoices
    /\ fs = [dir |-> FALSE, file |-> PyStr("absent")]

\* the parameters' sort orders vary
InitOrderedParams ==
    /\ db_exists = TRUE
    /\ Tools \in ToolsTables
    /\ ToolLocalizations = {} /\ ParameterLocalizations = {}
    /\ Parameters \in OrderedParamTables
    /\ Types = {}
    /\ args = [locale |-> PyStr("en"), fallback_locale |-> PyStr("en")]
    /\ fs = [dir |-> FALSE, file |-> PyStr("absent")]

\* the parameters' type references vary
InitTypedParams ==
    /\ db_exists = TRUE
    /\ Tools \in ToolsTables
    /\ ToolLocalizations = {} /\ ParameterLocalizations = {}
    /\ Parameters \in TypedParamTables
    /\ Types \in {{}, {TypeRow}}
    /\ args = [locale |-> PyStr("en"), fallback_locale |-> PyStr("en")]
    /\ fs = [dir |-> FALSE, file |-> PyStr("absent")]

Init ==
    /\ \/ InitMissing
       \/ InitOutput
       \/ InitToolLocs
       \/ InitParamLocs
       \/ InitOrderedParams
       \/ InitTypedParams
    /\ InitRun

Spec == Init /\ [][Next]_vars

RECURSIVE SeqsUpTo(_, _)
SeqsUpTo(S, n) ==
    IF n = 0 THEN {<< >>}
    ELSE LET shorter == SeqsUpTo(S, n - 1)
         IN shorter \cup {Append(q, x) : q \in shorter, x \in S}

BlobInputs ==
    {None} \cup {Bytes(b) : b \in SeqsUpTo(ByteValues, MaxBlobLen)}
           \cup {MemoryView(b) : b \in SeqsUpTo(ByteValues, MaxBlobLen)}

InitBlob ==
    /\ pc = "encode_blob"
    /\ blob_value \in BlobInputs
    /\ blob_result = Unset
    /\ db_exists = FALSE
    /\ Tools = {} /\ ToolLocalizations = {} /\ ParameterLocalizations = {}
    /\ Parameters = {} /\ Types = {}
    /\ args = [locale |-> PyStr("en"), fallback_locale |-> PyStr("en")]
    /\ conn = "none" /\ opens = 0 /\ pending = "none"
    /\ locals = NoLocals
    /\ fs = [dir |-> FALSE, file |-> PyStr("absent")]
    /\ fs_initial = fs

SpecBlob == InitBlob /\ [][BlobNext]_vars

-----------------------------------------------------------------------------
(* Properties *)

\* a fallback locale is present when it is neither None nor the empty string
FallbackPresent(F) == F # None /\ F # PyStr("")

\* the rows of a localization table for locale loc and tool k
ToolRowsIn(table, k, loc) ==
    {r \in table : r.toolId = k /\ loc # None /\ r.locale = loc.v}

\* what the claim prescribes for the rows prim of the primary locale and
\* fb of the fallback locale of one entity key k in map d
ResolvedAsClaimed(d, k, prim, fb, L, F) ==
    IF prim # {} THEN k \in DOMAIN d /\ d[k] \in prim
    ELSE IF FallbackPresent(F) /\ F # L /\ fb # {}
         THEN k \in DOMAIN d /\ d[k] \in fb
         ELSE k \notin DOMAIN d

\* C1: for every entity key of an action-type tool the resolved map holds the
\* primary-locale row if one exists, otherwise the fallback-locale row if the
\* fallback is present, differs from the primary locale and has a row,
\* otherwise nothing; this for tools (key rowId) and parameters (key
\* (toolId, key)).
C1_FallbackResolution ==
    /\ Bound(locals, "tool_localizations") =>
         \A k \in ActionRowIds(Tools) :
            ResolvedAsClaimed(locals.tool_localizations, k,
                ToolRowsIn(ToolLocalizations, k, args.locale),
                ToolRowsIn(ToolLocalizations, k, args.fallback_locale),
                args.locale, args.fallback_locale)
    /\ Bound(locals, "parameter_localizations") =>
         \A k \in ActionRowIds(Tools) : \A key \in {"a", "b", "c"} :
            ResolvedAsClaimed(locals.parameter_localizations, << k, key >>,
                {r \in ToolRowsIn(ParameterLocalizations, k, args.locale) :
                    r.key = key},
                {r \in ToolRowsIn(ParameterLocalizations, k, args.fallback_locale) :
                    r.key = key},
                args.locale, args.fallback_locale)

\* a tool has rows in both locales and the primary one was resolved
C1_Witness ==
    /\ Bound(locals, "tool_localizations")
    /\ FallbackPresent(args.fallback_locale)
    /\ args.fallback_locale # args.locale
    /\ \E k \in ActionRowIds(Tools) :
          /\ ToolRowsIn(ToolLocalizations, k, args.locale) # {}
          /\ ToolRowsIn(ToolLocalizations, k, args.fallback_locale) # {}
          /\ k \in DOMAIN locals.tool_localizations
          /\ locals.tool_localizations[k].locale = args.locale.v

\* the elements of a sequence
Range(q) == {q[i] : i \in 1..Len(q)}

\* the tools and parameters main fetched, and the record compiled for a tool
IncludedTools == Range(locals.tools)
FetchedParameters == Range(locals.parameters)
Compiled(tool) == locals.compiled_actions[tool.id]

\* the argument records of tool's output record that carry key
ArgumentsWithKey(tool, key) ==
    {a \in Range(Compiled(tool).arguments) : a.key = key}

\* the localization main resolved for a tool / for a fetched parameter
ResolvedTool(tool) == Get(locals.tool_localizations, tool.rowId)
ResolvedParam(p) == Get(locals.parameter_localizations, << p.toolId, p.key >>)

\* C2 as claimed: the output name is the entity's own identifier when the
\* resolved localization is absent or has a null name, and is the localized
\* name whenever that name is non-null.
C2_NameWheneverNonNull ==
    Bound(locals, "compiled_actions") =>
        /\ \A tool \in IncludedTools :
              LET localized == ResolvedTool(tool)
              IN IF localized = None \/ localized.name = None
                 THEN Compiled(tool).name = PyStr(tool.id)
                 ELSE Compiled(tool).name = localized.name
        /\ \A p \in FetchedParameters :
           \A tool \in {x \in IncludedTools : x.rowId = p.toolId} :
           \A a \in ArgumentsWithKey(tool, p.key) :
              LET localized == ResolvedParam(p)
              IN IF localized = None \/ localized.name = None
                 THEN a.name = PyStr(p.key)
                 ELSE a.name = localized.name

\* a localized name that is missing: null or the empty string
NoName(localized) ==
    localized = None \/ localized.name = None \/ localized.name = PyStr("")

\* C2 amended: the output name is the entity's own identifier (tool id,
\* parameter key) when the resolved localization is absent or its name is
\* null or empty, and is the localized name when that name is a non-empty
\* string.
C2_DefaultName ==
    Bound(locals, "compiled_actions") =>
        /\ \A tool \in IncludedTools :
              IF NoName(ResolvedTool(tool))
              THEN Compiled(tool).name = PyStr(tool.id)
              ELSE Compiled(tool).name = ResolvedTool(tool).name
        /\ \A p \in FetchedParameters :
           \A tool \in {x \in IncludedTools : x.rowId = p.toolId} :
              /\ ArgumentsWithKey(tool, p.key) # {}
              /\ \A a \in ArgumentsWithKey(tool, p.key) :
                    IF NoName(ResolvedParam(p))
                    THEN a.name = PyStr(p.key)
                    ELSE a.name = ResolvedParam(p).name

\* one tool whose resolved localization has an empty name was compiled under
\* its public identifier, another under its localized name
C2_Witness ==
    /\ Bound(locals, "compiled_actions")
    /\ \E tool \in IncludedTools :
          /\ ResolvedTool(tool) # None
          /\ ResolvedTool(tool).name = PyStr("")
          /\ Compiled(tool).name = PyStr(tool.id)
    /\ \E tool \in IncludedTools :
          /\ ResolvedTool(tool) # None
          /\ ResolvedTool(tool).name = PyStr(LocalizedNames[args.locale.v][tool.rowId])
          /\ Compiled(tool).name = ResolvedTool(tool).name

\* the strings that the localization rows of tool rowId hold in column col
StringsOf(table, rowId, col) ==
    {r[col] : r \in {x \in table : x.toolId = rowId}} \ {None}

\* C5: a Tools row whose toolType is not "action" is in none of the fetched
\* collections, its localization rows are in neither resolved map, its public
\* identifier is no key of the output, none of its parameters is in an
\* arguments list and none of its localized strings is in an output record.
C5_NonActionExcluded ==
    \A w \in {x \in Tools : x.toolType # "action"} :
        /\ Bound(locals, "tools") =>
              \A tool \in IncludedTools : tool.rowId # w.rowId
        /\ Bound(locals, "tool_localizations") =>
              \A k \in DOMAIN locals.tool_localizations :
                 k # w.rowId /\ locals.tool_localizations[k].toolId # w.rowId
        /\ Bound(locals, "parameter_localizations") =>
              \A k \in DOMAIN locals.parameter_localizations :
                 /\ k[1] # w.rowId
                 /\ locals.parameter_localizations[k].toolId # w.rowId
        /\ Bound(locals, "parameters") =>
              \A p \in FetchedParameters : p.toolId # w.rowId
        /\ Bound(locals, "compiled_actions") =>
              /\ w.id \notin DOMAIN locals.compiled_actions
              /\ \A i \in DOMAIN locals.compiled_actions :
                    LET out == locals.compiled_actions[i]
                    IN /\ out.rowId # w.rowId
                       /\ Len(out.arguments) =
                            Cardinality({p \in Parameters : p.toolId = out.rowId})
                       /\ out.name \notin
                            StringsOf(ToolLocalizations, w.rowId, "name")
                       /\ out.description \notin
                            StringsOf(ToolLocalizations, w.rowId, "descriptionSummary")
                       /\ \A a \in Range(out.arguments) :
                             /\ a.name \notin
                                  StringsOf(ParameterLocalizations, w.rowId, "name")
                             /\ a.description \notin
                                  StringsOf(ParameterLocalizations, w.rowId, "description")

\* a store with an action and a widget was compiled; the widget has a
\* parameter and a named localization row in the requested locale
C5_Witness ==
    /\ Bound(locals, "compiled_actions")
    /\ \E w \in Tools :
          /\ w.toolType # "action"
          /\ \E p \in Parameters : p.toolId = w.rowId
          /\ \E r \in ToolLocalizations :
                /\ r.toolId = w.rowId
                /\ r.locale = args.locale.v
                /\ r.name # None

\* a localized string that holds a value: non-null and not empty
HasValue(x) == x # None /\ x # PyStr("")

\* C10 as claimed, for each localized string separately: when the preferred
\* locale supplies no non-null value for an entity while the fallback locale
\* (present and different) has a row with a value for it, the output holds
\* the fallback's value.  (Stated for fallback values that are non-empty
\* strings, the narrowest reading of "a non-null value".)
C10_FallbackPerString ==
    (/\ Bound(locals, "compiled_actions")
     /\ FallbackPresent(args.fallback_locale)
     /\ args.fallback_locale # args.locale) =>
        /\ \A tool \in IncludedTools :
              LET prim == ToolRowsIn(ToolLocalizations, tool.rowId, args.locale)
                  fb == ToolRowsIn(ToolLocalizations, tool.rowId, args.fallback_locale)
              IN /\ ((\A r \in prim : r.name = None) /\ (\E r \in fb : HasValue(r.name)))
                      => \E r \in fb : Compiled(tool).name = r.name
                 /\ ((\A r \in prim : r.descriptionSummary = None)
                        /\ (\E r \in fb : HasValue(r.descriptionSummary)))
                      => \E r \in fb : Compiled(tool).description = r.descriptionSummary
        /\ \A p \in FetchedParameters :
           \A tool \in {x \in IncludedTools : x.rowId = p.toolId} :
           \A a \in ArgumentsWithKey(tool, p.key) :
              LET prim == {r \in ToolRowsIn(ParameterLocalizations, p.toolId, args.locale) :
                              r.key = p.key}
                  fb == {r \in ToolRowsIn(ParameterLocalizations, p.toolId,
                                          args.fallback_locale) : r.key = p.key}
              IN /\ ((\A r \in prim : r.name = None) /\ (\E r \in fb : HasValue(r.name)))
                      => \E r \in fb : a.name = r.name
                 /\ ((\A r \in prim : r.description = None)
                        /\ (\E r \in fb : HasValue(r.description)))
                      => \E r \in fb : a.description = r.description

\* the indices of an arguments list whose record was built from row p
OccurrencesIn(arguments, p) ==
    {i \in 1..Len(arguments) :
        /\ arguments[i].key = p.key
        /\ arguments[i].sortOrder = p.sortOrder
        /\ arguments[i].relationships = encode_blob(p.relationships)}

C4_ArgumentsOrdered ==
    Bound(locals, "compiled_actions") =>
        \A id \in DOMAIN locals.compiled_actions :
            LET arguments == locals.compiled_actions[id].arguments
            IN \A i, j \in 1..Len(arguments) :
                  i < j =>
                     \/ arguments[i].sortOrder < arguments[j].sortOrder
                     \/ /\ arguments[i].sortOrder = arguments[j].sortOrder
                        /\ KeyRank(arguments[i].key) < KeyRank(arguments[j].key)

\* a tool was compiled with three arguments: key "c" first, then "a" and "b"
\* sharing a sort order
C4_Witness ==
    /\ Bound(locals, "compiled_actions")
    /\ \E id \in DOMAIN locals.compiled_actions :
          LET arguments == locals.compiled_actions[id].arguments
          IN /\ Len(arguments) = 3
             /\ arguments[1].key = "c"
             /\ arguments[2].key = "a"
             /\ arguments[3].key = "b"
             /\ arguments[2].sortOrder = arguments[3].sortOrder

\* parameter row p has no Types row: typeId is null or matches no rowId
NoTypeRecord(p) ==
    p.typeId = None \/ ~\E ty \in Types : p.typeId = PyInt(ty.rowId)

\* C9 as claimed: for a parameter without a Types row all five fields of the
\* argument's type object are null.
C9_AllTypeFieldsNull ==
    Bound(locals, "compiled_actions") =>
        \A tool \in IncludedTools :
        \A p \in {x \in Parameters : x.toolId = tool.rowId /\ NoTypeRecord(x)} :
        \A a \in ArgumentsWithKey(tool, p.key) :
            /\ a.type.rowId = None
            /\ a.type.kind = None
            /\ a.type.runtimeFlags = None
            /\ a.type.runtimeRequirements = None
            /\ a.type.encodedId = None

\* C9 amended: for a parameter without a Types row the fields kind,
\* runtimeFlags, runtimeRequirements and encodedId of the argument's type
\* object are null, and rowId is the parameter's own typeId: null when the
\* typeId is null, the unmatched typeId otherwise.
C9_TypeFieldsOfUntyped ==
    Bound(locals, "compiled_actions") =>
        \A tool \in IncludedTools :
        \A p \in {x \in Parameters : x.toolId = tool.rowId /\ NoTypeRecord(x)} :
            /\ ArgumentsWithKey(tool, p.key) # {}
            /\ \A a \in ArgumentsWithKey(tool, p.key) :
                  /\ a.type.rowId = p.typeId
                  /\ a.type.kind = None
                  /\ a.type.runtimeFlags = None
                  /\ a.type.runtimeRequirements = None
                  /\ a.type.encodedId = None

\* the store holds a Types row, and a parameter whose typeId matches no
\* Types row was compiled next to one whose typeId is null
C9_Witness ==
    /\ Bound(locals, "compiled_actions")
    /\ Types # {}
    /\ \E tool \in IncludedTools :
       \E p, q \in {x \in Parameters : x.toolId = tool.rowId /\ NoTypeRecord(x)} :
          /\ p.typeId # None
          /\ q.typeId = None
          /\ \E a \in ArgumentsWithKey(tool, p.key) : a.type.rowId = p.typeId

\* the failures the all-or-nothing rule names
NamedFailures == {"db_not_found", "no_tools", "query_error"}

\* C6: a run that ends in one of the named failures leaves the output side
\* as it found it (no file created or modified, no directory created), and
\* the output side is touched only in runs where the source exists, the tool
\* query returned a row and all four queries completed.
C6_AllOrNothing ==
    /\ (pc = "failed" /\ pending \in NamedFailures) => fs = fs_initial
    /\ fs # fs_initial =>
          /\ db_exists
          /\ pending \notin NamedFailures
          /\ Bound(locals, "tools") /\ locals.tools # << >>
          /\ Bound(locals, "tool_localizations")
          /\ Bound(locals, "parameter_localizations")
          /\ Bound(locals, "parameters")

\* a run found no action tool and ended; an older output file was in place
C6_Witness ==
    /\ pc = "failed"
    /\ pending = "no_tools"
    /\ fs_initial.file = PyStr("old")
    /\ Tools # {}

\* C7: the connection is opened once at most; it is open while a query can
\* be issued and closed once the try block is left: when build_payload runs,
\* when the output is written and when the process has ended, on success and
\* on any failure after the connection was opened.
C7_ConnectionScoped ==
    /\ opens <= 1
    /\ conn # "none" <=> opens = 1
    /\ pc \in QueryPcs \cup {"finally"} => conn = "open"
    /\ pc \in {"build_payload", "mkdir", "write_text", "done"} => conn = "closed"
    /\ (pc = "failed" /\ opens > 0) => conn = "closed"

\* a query raised after two fetches and the run ended
C7_Witness ==
    /\ pc = "failed"
    /\ pending = "query_error"
    /\ opens = 1
    /\ Bound(locals, "tool_localizations")
    /\ ~Bound(locals, "parameters")

\* C8: encode_blob(None) is None; for a byte sequence, given as bytes or as a
\* memoryview, the result is a string whose base64 decoding is the byte
\* sequence, and it is the empty string exactly for the empty sequence.
C8_EncodeBlobRoundTrip ==
    pc = "returned" =>
        IF blob_value = None THEN blob_result = None
        ELSE /\ blob_result # None
             /\ blob_result.t = "ascii"
             /\ b64decode(blob_result.v) = blob_value.v
             /\ blob_result.v = << >> <=> blob_value.v = << >>

\* memoryview(b"Ma") was encoded to "TWE="
C8_Witness ==
    /\ pc = "returned"
    /\ blob_value = MemoryView(<< 77, 97 >>)
    /\ blob_result = Ascii(<< "T", "W", "E", "=" >>)

====
